---- MODULE Spec2Model ----
(***************************************************************************)
(* A model of the CPU back end of ppcg as shipped in AutoSA (src/cpu.c):    *)
(* the dependence test that proves a loop parallel, the hooks that run      *)
(* while the AST is built from the schedule, the printing callbacks, and    *)
(* the driver generate_cpu.                                                 *)
(***************************************************************************)
EXTENDS Integers, Sequences, FiniteSets, TLC

(***************************************************************************)
(* Bounds of the model.                                                     *)
(***************************************************************************)
\* statement instances of the analyzer's input relations (SpecAnalyzer)
MaxInst == 2
\* dimensions of a schedule space handed to the analyzer (SpecAnalyzer)
MaxDim == 2
\* pairs in dep_flow and dep_false together (SpecAnalyzer)
MaxDeps == 2

\* N, the number of iterations of a statement's domain, is 1 .. MaxN
MaxN == 2
\* nodes (for nodes and leaves) of a generated tree (SpecBuild)
MaxNodes == 4

\* nesting depth of a statement body (SpecStmt)
MaxExprDepth == 2

\* arrays of the SCoP (Spec)
MaxArrays == 2
\* nodes of a generated tree when the whole of generate_cpu runs (Spec)
MaxDriverNodes == 2
\* characters of an input path (SpecName)
MaxPathLen == 3

\* the values one component of a timestamp vector takes (SpecAnalyzer)
TimeVals == {0, 1}

VARIABLES
    \* the SCoP (struct ppcg_scop), read only
    dep_flow,       \* scop->dep_flow: a set of pairs of statement instances
    dep_false,      \* scop->dep_false
    n_iter,         \* N: every statement's domain is 0 <= i < N
    stmts,          \* scop->stmts: a sequence of [id, body]
    \* the options
    openmp,         \* options->openmp
    \* print_scop: the build and its hooks
    pc,             \* the place the program is at
    in_parallel_for,\* build_info.in_parallel_for (-1: never assigned)
    open,           \* the for nodes under construction, outermost first
    tree,           \* the nodes built so far, in pre-order
    tree_ok,        \* FALSE once a hook has returned NULL: the tree is NULL
    fuel,           \* the nodes the build may still generate
    freed,          \* the calls of ppcg_stmt_free so far
    \* print_scop: printing
    cursor,         \* the next node of tree to print
    printer,        \* p, the isl_printer: "none", "ok" or "NULL"
    output_file,    \* the FILE the printer writes to
    out,            \* the lines written to output_file so far
    \* generate_cpu
    scop_present,   \* ps is not NULL
    arrays,         \* scop->arrays: a sequence of [declared, exposed]
    input,          \* the input path, a sequence of characters
    output,         \* the output path: <<>> for NULL, else <<path>>
    input_file,     \* "unopened", "open", "NULL" (fopen failed) or "closed"
    out_name,       \* <<>>, then <<the path handed to fopen(.., "w")>>
    hidden,         \* the local variable hidden
    ret,            \* <<>>, then <<the value generate_cpu returned>>
    \* the analyzer on its own
    a_sched,        \* SpecAnalyzer: the build's schedule, [dim, map]
    a_ret           \* SpecAnalyzer: <<>>, then <<the analyzer's return value>>

scopVars == <<dep_flow, dep_false, n_iter, stmts, openmp>>
buildVars == <<in_parallel_for, open, tree, tree_ok, fuel, freed>>
printVars == <<cursor, printer, output_file, out>>
analyzerVars == <<a_sched, a_ret>>
driverVars == <<scop_present, arrays, input, output, input_file, out_name,
                hidden, ret>>
vars == <<scopVars, buildVars, printVars, analyzerVars, driverVars, pc>>

(***************************************************************************)
(* ast_schedule_dim_is_parallel, src/cpu.c 119-159.                         *)
(* A schedule is [dim |-> number of output dimensions, map |-> a function   *)
(* from the scheduled statement instances to timestamp vectors].            *)
(***************************************************************************)

\* isl_union_map_apply_range(deps, schedule) then apply_domain(deps, schedule):
\* the dependences as pairs of timestamp vectors; a pair with an instance the
\* schedule does not cover has no image.
ScheduleDeps(deps, schedule) ==
    { <<schedule.map[p[1]], schedule.map[p[2]]>> :
        p \in { q \in deps : q[1] \in DOMAIN schedule.map
                          /\ q[2] \in DOMAIN schedule.map } }

\* isl_map_equate(schedule_deps, isl_dim_out, i, isl_dim_in, i) for the
\* dimensions 0 .. dimension-1 (1 .. dimension here: sequences start at 1)
EquateOuter(sdeps, dimension) ==
    { d \in sdeps : \A i \in 1..dimension : d[2][i] = d[1][i] }

\* membership in test: the universe map with the dimension "dimension"
\* (0-based) of input and output equated
InTest(d, dimension) == d[2][dimension + 1] = d[1][dimension + 1]

\* a plausible slip: only the flow dependences are tested
ast_schedule_dim_is_parallel_flow_only(schedule, flow, false) ==
    LET dimension == schedule.dim - 1
        deps == ScheduleDeps(flow, schedule)
    IN  IF deps = {} THEN TRUE
        ELSE \A d \in EquateOuter(deps, dimension) : InTest(d, dimension)

\* a plausible slip: any dependence between scheduled instances forbids
ast_schedule_dim_is_parallel_no_deps(schedule, flow, false) ==
    ScheduleDeps(flow \cup false, schedule) = {}

ast_schedule_dim_is_parallel(schedule, flow, false) ==
    LET dimension == schedule.dim - 1
        deps == ScheduleDeps(flow \cup false, schedule)
    IN  IF deps = {} THEN TRUE
        ELSE \A d \in EquateOuter(deps, dimension) : InTest(d, dimension)

(***************************************************************************)
(* SpecAnalyzer: the analyzer applied to every schedule and every pair of   *)
(* dependence relations within the bounds.                                  *)
(***************************************************************************)
AInst == 1..MaxInst
APairs == AInst \X AInst
ADeps == { fg \in (SUBSET APairs) \X (SUBSET APairs) :
             Cardinality(fg[1]) + Cardinality(fg[2]) <= MaxDeps }
ASchedules ==
    UNION { { [dim |-> d, map |-> f] :
                f \in UNION { [D -> [1..d -> TimeVals]] : D \in SUBSET AInst } } :
            d \in 1..MaxDim }

InitAnalyzer ==
    /\ \E fg \in ADeps : dep_flow = fg[1] /\ dep_false = fg[2]
    /\ a_sched \in ASchedules
    /\ a_ret = <<>>
    /\ n_iter = 0 /\ stmts = <<>> /\ openmp = 0
    /\ pc = "analyzer"
    /\ in_parallel_for = -1 /\ open = <<>> /\ tree = <<>> /\ tree_ok = TRUE
    /\ fuel = 0 /\ freed = <<>>
    /\ cursor = 1 /\ printer = "none" /\ output_file = "unopened" /\ out = <<>>
    /\ scop_present = TRUE /\ arrays = <<>>
    /\ input = <<>> /\ output = <<>>
    /\ input_file = "unopened" /\ out_name = <<>>
    /\ hidden = 0 /\ ret = <<>>

AnalyzerCall ==
    /\ a_ret = <<>>
    /\ a_ret' = <<ast_schedule_dim_is_parallel(a_sched, dep_flow, dep_false)>>
    /\ UNCHANGED <<scopVars, buildVars, printVars, driverVars, a_sched, pc>>

NextAnalyzer == AnalyzerCall

SpecAnalyzer == InitAnalyzer /\ [][NextAnalyzer]_vars

(***************************************************************************)
(* C3                                                                       *)
(***************************************************************************)
\* the pair of instances p has an image under the schedule
Scheduled(p, schedule) ==
    p[1] \in DOMAIN schedule.map /\ p[2] \in DOMAIN schedule.map

\* the two timestamps of p agree in every dimension before the last one
OuterEqual(p, schedule) ==
    \A i \in 1..(schedule.dim - 1) :
        schedule.map[p[1]][i] = schedule.map[p[2]][i]

\* the two timestamps of p agree in the last dimension
LastEqual(p, schedule) ==
    schedule.map[p[1]][schedule.dim] = schedule.map[p[2]][schedule.dim]

\* C3: the analyzer returns parallel if and only if every pair of
\* dep_flow \cup dep_false that the schedule maps to two timestamps equal in
\* all dimensions before the last one is also mapped to timestamps equal in
\* the last dimension; it returns parallel when no pair has an image, and in
\* a one-dimensional schedule space the test is equality on that dimension.
C3_AnalyzerIff ==
    a_ret # <<>> =>
        LET all == dep_flow \cup dep_false
            mapped == { p \in all : Scheduled(p, a_sched) }
        IN  /\ a_ret[1] = (\A p \in mapped :
                              OuterEqual(p, a_sched) => LastEqual(p, a_sched))
            /\ (mapped = {} => a_ret[1] = TRUE)
            /\ (a_sched.dim = 1 =>
                    a_ret[1] = (\A p \in mapped : LastEqual(p, a_sched)))

\* a two-dimensional schedule, a flow dependence whose timestamps differ in
\* the outer and in the last dimension (dropped when the outer dimensions
\* are equated) and a false dependence of distance zero: the analyzer has
\* answered "parallel"
C3_Witness ==
    /\ a_ret = <<TRUE>>
    /\ a_sched.dim = 2
    /\ \E p \in dep_flow :
            /\ Scheduled(p, a_sched) /\ ~OuterEqual(p, a_sched)
            /\ ~LastEqual(p, a_sched)
    /\ \E p \in dep_false :
            /\ Scheduled(p, a_sched) /\ OuterEqual(p, a_sched)
            /\ LastEqual(p, a_sched)


(***************************************************************************)
(* The statements of the SCoP and their bodies (struct pet_expr).           *)
(***************************************************************************)
Access(name, args) == [type |-> "access", name |-> name, args |-> args]
Op(args) == [type |-> "op", name |-> "", args |-> args]
Double == [type |-> "double", name |-> "", args |-> <<>>]
\* a null struct pet_expr pointer
NullExpr == [type |-> "NULL", name |-> "", args |-> <<>>]

\* S1: C[i] = A[i] + B[i]      S2: D[i] = C[i]
VecAddStmts ==
    << [id |-> "S1",
        body |-> Op(<<Access("C", <<>>),
                      Op(<<Access("A", <<>>), Access("B", <<>>)>>)>>)],
       [id |-> "S2",
        body |-> Op(<<Access("D", <<>>), Access("C", <<>>)>>)] >>

\* the statement instances of the domain: S[i] with 0 <= i < N
Instances == {"S1", "S2"} \X (0..(n_iter - 1))

(***************************************************************************)
(* find_stmt, src/cpu.c 294-311: the position in scop->stmts of the first   *)
(* statement whose domain carries "id", 0 for the NULL of isl_die.          *)
(***************************************************************************)
find_stmt(id) ==
    LET hits == { i \in 1..Len(stmts) : stmts[i].id = id }
    IN  IF hits = {} THEN 0
        ELSE CHOOSE i \in hits : \A j \in hits : i <= j

(***************************************************************************)
(* foreach_access_expr, src/cpu.c 421-437, with a callback that returns 0   *)
(* (inc_n_access and add_access both do): the value returned and the        *)
(* access sub-expressions the callback was called on, in order, each named  *)
(* by its path from the root of the body.                                   *)
(***************************************************************************)
RECURSIVE foreach_access_expr(_, _)
RECURSIVE ForeachArgs(_, _, _)
\* a plausible slip: the arguments of an access are visited as well
foreach_access_expr_descend(expr, path) ==
    IF expr.type = "NULL" THEN [ret |-> -1, visited |-> <<>>]
    ELSE IF expr.type = "access"
    THEN LET inner == ForeachArgs(expr, path, 1)
         IN  [ret |-> inner.ret, visited |-> <<path>> \o inner.visited]
    ELSE ForeachArgs(expr, path, 1)

foreach_access_expr(expr, path) ==
    IF expr.type = "NULL" THEN [ret |-> -1, visited |-> <<>>]
    ELSE IF expr.type = "access" THEN [ret |-> 0, visited |-> <<path>>]
    ELSE ForeachArgs(expr, path, 1)

\* the loop over expr->args from the i-th argument on
ForeachArgs(expr, path, i) ==
    IF i > Len(expr.args) THEN [ret |-> 0, visited |-> <<>>]
    ELSE LET r == foreach_access_expr(expr.args[i], Append(path, i))
         IN  IF r.ret < 0 THEN r
             ELSE LET rest == ForeachArgs(expr, path, i + 1)
                  IN  [ret |-> rest.ret, visited |-> r.visited \o rest.visited]

(***************************************************************************)
(* at_each_domain, src/cpu.c 497-550, on a leaf that carries the statement  *)
(* identity "id". stmt_alloc and access_alloc say whether the two           *)
(* allocations succeed. The result: whether a node is returned, the         *)
(* annotation attached to it, and the calls of ppcg_stmt_free made on a     *)
(* non-null annotation, each with the n_access it finds, the number of      *)
(* entries of the access array it finds allocated, and the error that led   *)
(* to the call.                                                             *)
(***************************************************************************)
\* add_access, src/cpu.c 461-491: the index expressions of the access at
\* "path", transformed to the iterators of the build
add_access(path) == [of |-> path]

at_each_domain(id, stmt_alloc, access_alloc) ==
    LET found == find_stmt(id)
        count == foreach_access_expr(stmts[found].body, <<>>)
        failed(n, why) ==
            [node |-> FALSE, annot |-> <<>>,
             free |-> <<[n_access |-> n, n_alloc |-> 0, on |-> why]>>]
    IN  IF ~stmt_alloc THEN [node |-> FALSE, annot |-> <<>>, free |-> <<>>]
        ELSE IF found = 0 THEN failed(0, "lookup")
        ELSE IF count.ret < 0 THEN failed(Len(count.visited), "count")
        ELSE IF ~access_alloc THEN failed(Len(count.visited), "alloc")
        ELSE LET second == foreach_access_expr(stmts[found].body, <<>>)
             IN  [node |-> TRUE,
                  annot |-> <<[stmt |-> found,
                               n_access |-> Len(second.visited),
                               n_alloc |-> Len(count.visited),
                               access |-> [k \in 1..Len(second.visited) |->
                                              add_access(second.visited[k])]]>>,
                  free |-> <<>>]


(***************************************************************************)
(* The build: isl_ast_build_ast_from_schedule (src/cpu.c 585) walks the     *)
(* schedule and calls the hooks print_scop registered. Every for node adds  *)
(* one dimension to the schedule space of the build; the dimension maps a   *)
(* statement instance S[i] to i ("iter"), to 0 ("zero") or to the position  *)
(* of S in the statement list ("stmt").                                     *)
(***************************************************************************)
Components == {"iter", "zero", "stmt"}

CompVal(c, inst) ==
    IF c = "iter" THEN inst[2]
    ELSE IF c = "stmt" THEN (IF inst[1] = "S1" THEN 0 ELSE 1)
    ELSE 0

\* isl_ast_build_get_schedule(build) inside a for node whose enclosing for
\* nodes and itself have the components comps, outermost first
BuildSchedule(comps) ==
    [dim |-> Len(comps),
     map |-> [inst \in Instances |->
                [k \in 1..Len(comps) |-> CompVal(comps[k], inst)]]]

\* the components of the for nodes under construction
OpenComps == [k \in 1..Len(open) |-> tree[open[k]].comp]

\* the statement identities a generated leaf may carry: those of the
\* statement list and one that is not in it
LeafIds == {"S1", "S2", "S3"}

\* a plausible slip: the loop is marked whenever it is parallel
mark_openmp_parallel_always(schedule) ==
    IF ast_schedule_dim_is_parallel(schedule, dep_flow, dep_false)
    THEN [in_parallel_for |-> 1, is_openmp |-> 1]
    ELSE [in_parallel_for |-> in_parallel_for, is_openmp |-> 0]

\* mark_openmp_parallel, src/cpu.c 163-174, on a node_info fresh from
\* allocate_ast_node_userinfo (is_openmp = 0): the two fields afterwards
mark_openmp_parallel(schedule) ==
    IF in_parallel_for = 1
    THEN [in_parallel_for |-> in_parallel_for, is_openmp |-> 0]
    ELSE IF ast_schedule_dim_is_parallel(schedule, dep_flow, dep_false)
    THEN [in_parallel_for |-> 1, is_openmp |-> 1]
    ELSE [in_parallel_for |-> in_parallel_for, is_openmp |-> 0]

\* print_scop, src/cpu.c 565-583: the build is set up; the for hooks are
\* registered, and build_info initialised, only with options->openmp
PrintScopBegin ==
    /\ pc = "print_scop"
    /\ in_parallel_for' = IF openmp # 0 THEN 0 ELSE in_parallel_for
    /\ pc' = "build"
    /\ UNCHANGED <<scopVars, open, tree, tree_ok, fuel, freed, printVars,
                   analyzerVars, driverVars>>

\* the build starts a for node: ast_build_before_for, src/cpu.c 203-218, is
\* called if registered and the id it returns annotates the node
BeforeFor ==
    /\ pc = "build" /\ tree_ok
    /\ fuel >= 2
    /\ \E c \in Components :
        LET m == mark_openmp_parallel(BuildSchedule(Append(OpenComps, c)))
            annot == IF openmp # 0 THEN <<[is_openmp |-> m.is_openmp]>>
                     ELSE <<>>
        IN  /\ tree' = Append(tree, [kind |-> "for", depth |-> Len(open),
                                     comp |-> c, annot |-> annot])
            /\ in_parallel_for' =
                  IF openmp # 0 THEN m.in_parallel_for ELSE in_parallel_for
    /\ open' = Append(open, Len(tree) + 1)
    /\ fuel' = fuel - 1
    /\ UNCHANGED <<scopVars, tree_ok, freed, printVars, analyzerVars, driverVars, pc>>

\* a plausible slip: the flag is cleared when any for node is left
ast_build_after_for_any(node) == 0

\* a plausible slip: the flag is never cleared
ast_build_after_for_never(node) == in_parallel_for

\* ast_build_after_for, src/cpu.c 228-245: in_parallel_for afterwards
ast_build_after_for(node) ==
    IF node.annot # <<>> /\ node.annot[1].is_openmp # 0
    THEN 0
    ELSE in_parallel_for

\* the build completes the innermost for node under construction, which has
\* a body; ast_build_after_for is called if registered
AfterFor ==
    /\ pc = "build" /\ tree_ok
    /\ open # <<>>
    /\ open[Len(open)] < Len(tree)
    /\ in_parallel_for' =
          IF openmp # 0 THEN ast_build_after_for(tree[open[Len(open)]])
          ELSE in_parallel_for
    /\ open' = SubSeq(open, 1, Len(open) - 1)
    /\ UNCHANGED <<scopVars, tree, tree_ok, fuel, freed, printVars,
                   analyzerVars, driverVars, pc>>

\* the annotations of the leaves of a tree, as ppcg_stmt_free finds them
\* when the tree is freed
RECURSIVE LeafFrees(_)
LeafFrees(t) ==
    IF t = <<>> THEN <<>>
    ELSE LET n == t[1]
             rest == LeafFrees(Tail(t))
         IN  IF n.kind = "user"
             THEN <<[n_access |-> n.annot[1].n_access,
                     n_alloc |-> n.annot[1].n_alloc, on |-> "tree"]>> \o rest
             ELSE rest

\* ppcg_stmt_free, src/cpu.c 41-54, reads access[i] for every i below
\* n_access: with fewer entries allocated the read is outside the array
\* (through a null pointer when none is allocated) and the call is undefined
OutsideArray(f) == f.n_access > f.n_alloc

\* the build generates a leaf and calls at_each_domain on it; a NULL node
\* makes the build give up: what was built is freed and the tree is NULL.
\* An undefined release either goes unnoticed or ends the program.
AtEachDomain ==
    /\ pc = "build" /\ tree_ok
    /\ fuel >= 1
    /\ \E id \in LeafIds, stmt_alloc \in BOOLEAN, access_alloc \in BOOLEAN :
        LET r == at_each_domain(id, stmt_alloc, access_alloc)
        IN  IF r.node
            THEN /\ tree' = Append(tree, [kind |-> "user", depth |-> Len(open),
                                          id |-> id, annot |-> r.annot])
                 /\ fuel' = fuel - 1
                 /\ freed' = freed \o r.free
                 /\ UNCHANGED <<tree_ok, open, pc>>
            ELSE /\ tree_ok' = FALSE
                 /\ freed' = freed \o r.free \o LeafFrees(tree)
                 /\ tree' = <<>>
                 /\ open' = <<>>
                 /\ pc' \in IF \E i \in 1..Len(r.free) : OutsideArray(r.free[i])
                            THEN {"print", "crashed"}
                            ELSE {"print"}
                 /\ UNCHANGED fuel
    /\ UNCHANGED <<scopVars, in_parallel_for, printVars, analyzerVars, driverVars>>

\* isl_ast_build_ast_from_schedule returns the tree
BuildEnd ==
    /\ pc = "build" /\ tree_ok
    /\ open = <<>>
    /\ pc' = "print"
    /\ UNCHANGED <<scopVars, buildVars, printVars, analyzerVars, driverVars>>


(***************************************************************************)
(* Printing: isl_ast_node_print (src/cpu.c 596) walks the tree in pre-order *)
(* and calls print_for on every for node and print_user on every leaf.      *)
(* The text of the macro definitions (src/cpu.c 595) is part of the tree's  *)
(* text and has no line of its own here.                                    *)
(***************************************************************************)
\* one piece of text in the output: the section it belongs to, what it is,
\* the node or array it is about, and, for a statement, its substitutions
Line(sec, kind, node, subst) ==
    [sec |-> sec, kind |-> kind, node |-> node, subst |-> subst]

\* writing to output_file: a stream that is not open is a null FILE
\* pointer, and the call then either crashes or fails without writing
Emit(lines, next) ==
    IF output_file = "open"
    THEN out' = out \o lines /\ pc' = next
    ELSE out' = out /\ pc' \in {next, "crashed"}

\* print_pet_expr: the access sub-expressions print_access_fn is called on,
\* in order, each named by its path from the root of the body
RECURSIVE print_pet_expr(_, _)
RECURSIVE PrintArgs(_, _, _)
print_pet_expr(expr, path) ==
    IF expr.type = "access" THEN <<path>>
    ELSE IF expr.type = "op" THEN PrintArgs(expr, path, 1)
    ELSE <<>>

PrintArgs(expr, path, i) ==
    IF i > Len(expr.args) THEN <<>>
    ELSE print_pet_expr(expr.args[i], Append(path, i))
             \o PrintArgs(expr, path, i + 1)

\* what is read one past the last allocated entry of stmt->access
PastEnd == [of |-> <<0>>]

\* print_user with print_access_expr, src/cpu.c 318-354: the cursor starts
\* at stmt->access and moves on by one in every call of print_access_expr.
\* The result: for every call, the access printed and the list the cursor
\* pointed to.
print_user(annot) ==
    LET order == print_pet_expr(stmts[annot.stmt].body, <<>>)
    IN  [k \in 1..Len(order) |->
            [at |-> order[k],
             list |-> IF k <= annot.n_alloc THEN annot.access[k] ELSE PastEnd]]

\* a plausible slip: the annotation is not looked at
print_for_unconditional(k) ==
    <<Line("tree", "pragma", 0, <<>>), Line("tree", "for", k, <<>>)>>

\* print_for, src/cpu.c 390-417, with print_for_with_openmp, 372-383: the
\* lines written for the for node at position k
print_for(k) ==
    LET node == tree[k]
        is_par == node.annot # <<>> /\ node.annot[1].is_openmp # 0
    IN  IF is_par
        THEN <<Line("tree", "pragma", 0, <<>>), Line("tree", "for", k, <<>>)>>
        ELSE <<Line("tree", "for", k, <<>>)>>

PrintFor ==
    /\ pc = "print" /\ tree_ok /\ printer = "ok"
    /\ cursor <= Len(tree)
    /\ tree[cursor].kind = "for"
    /\ Emit(print_for(cursor), "print")
    /\ cursor' = cursor + 1
    /\ UNCHANGED <<scopVars, buildVars, printer, output_file, analyzerVars, driverVars>>

PrintUser ==
    /\ pc = "print" /\ tree_ok /\ printer = "ok"
    /\ cursor <= Len(tree)
    /\ tree[cursor].kind = "user"
    /\ Emit(<<Line("tree", "stmt", cursor, print_user(tree[cursor].annot[1]))>>,
            "print")
    /\ cursor' = cursor + 1
    /\ UNCHANGED <<scopVars, buildVars, printer, output_file, analyzerVars, driverVars>>

\* src/cpu.c 595-600: the tree is printed and freed; isl_ast_node_print on a
\* NULL tree frees the printer and returns NULL. The variable tree keeps
\* the nodes as they were built.
PrintScopEnd ==
    /\ pc = "print"
    /\ \/ /\ tree_ok /\ cursor > Len(tree)
          /\ freed' = freed \o LeafFrees(tree)
          /\ UNCHANGED printer
       \/ /\ ~tree_ok
          /\ printer' = "NULL"
          /\ UNCHANGED freed
    /\ pc' = "end_block"
    /\ UNCHANGED <<scopVars, in_parallel_for, open, tree, tree_ok, fuel,
                   cursor, output_file, out, analyzerVars, driverVars>>


(***************************************************************************)
(* SpecBuild: print_scop on the two-statement SCoP, for every dependence    *)
(* relation of a small family, every N and every tree the build may         *)
(* generate within the bounds. It starts where generate_cpu calls           *)
(* print_scop, with the text before the region and the marker written.      *)
(***************************************************************************)
\* the dependences S[i] -> T[i + d] inside the domain
Dep(s, t, d) ==
    { <<<<s, i>>, <<t, i + d>>>> : i \in 0..(n_iter - 1 - d) }

FlowFamily ==
    {{}} \cup { Dep(s, t, d) : s \in {"S1", "S2"}, t \in {"S1", "S2"},
                               d \in {0, 1} }
FalseFamily == { {}, Dep("S2", "S1", 1), Dep("S1", "S1", 1) }

InitBuild ==
    /\ n_iter \in 1..MaxN
    /\ dep_flow \in FlowFamily
    /\ dep_false \in FalseFamily
    /\ stmts = VecAddStmts
    /\ openmp \in {0, 1}
    /\ pc = "print_scop"
    /\ in_parallel_for = -1 /\ open = <<>> /\ tree = <<>> /\ tree_ok = TRUE
    /\ fuel = MaxNodes /\ freed = <<>>
    /\ cursor = 1 /\ printer = "ok" /\ output_file = "open"
    /\ out = <<Line("pre", "", 0, <<>>), Line("marker", "", 0, <<>>)>>
    /\ a_sched = <<>> /\ a_ret = <<>>
    /\ scop_present = TRUE /\ arrays = <<>>
    /\ input = <<"f", ".", "c">> /\ output = <<>>
    /\ input_file = "open" /\ out_name = <<<<"f", ".", "p", "p", "c", "g", ".", "c">>>>
    /\ hidden = 0 /\ ret = <<>>

NextBuild ==
    \/ PrintScopBegin
    \/ BeforeFor
    \/ AfterFor
    \/ AtEachDomain
    \/ BuildEnd
    \/ PrintFor
    \/ PrintUser
    \/ PrintScopEnd

SpecBuild == InitBuild /\ [][NextBuild]_vars


(***************************************************************************)
(* The generated tree, read from its pre-order.                             *)
(***************************************************************************)
ForNodes == { k \in 1..Len(tree) : tree[k].kind = "for" }

\* the for node k is annotated and its annotation is marked parallel
Marked(k) ==
    /\ k \in ForNodes
    /\ tree[k].annot # <<>>
    /\ tree[k].annot[1].is_openmp # 0

\* the for nodes that enclose node k
Ancestors(k) ==
    { j \in ForNodes : /\ j < k
                       /\ \A m \in (j + 1)..k : tree[m].depth > tree[j].depth }

\* the components of the schedule space inside the for node k
PathComps(k) ==
    [d \in 1..(tree[k].depth + 1) |->
        IF d = tree[k].depth + 1 THEN tree[k].comp
        ELSE tree[CHOOSE j \in Ancestors(k) : tree[j].depth = d - 1].comp]

\* what the analyzer says of the for node k
Verdict(k) ==
    ast_schedule_dim_is_parallel(BuildSchedule(PathComps(k)), dep_flow, dep_false)

(***************************************************************************)
(* C1                                                                       *)
(***************************************************************************)
\* C1: no for node marked parallel has an enclosing for node marked
\* parallel, and at most one of the for nodes under construction is marked
\* parallel.
C1_NoNestedParallel ==
    /\ \A k \in ForNodes :
          Marked(k) => \A j \in Ancestors(k) : ~Marked(j)
    /\ Cardinality({ i \in 1..Len(open) : Marked(open[i]) }) <= 1

\* a finished tree in which a loop marked parallel encloses a loop the
\* analyzer finds parallel too
C1_Witness ==
    /\ pc = "print" /\ tree_ok /\ openmp = 1
    /\ \E k \in ForNodes, j \in ForNodes :
          Marked(k) /\ k \in Ancestors(j) /\ Verdict(j)

(***************************************************************************)
(* C2                                                                       *)
(***************************************************************************)
\* the SCoP of the claim: the flow dependence S1[i] -> S2[i] and nothing
\* else, and the tree "for i: S1(i); S2(i)" built under the identity
\* schedule S1[i] -> [i], S2[i] -> [i]
C2_Scenario ==
    /\ dep_flow = Dep("S1", "S2", 0) /\ dep_false = {}
    /\ tree_ok /\ Len(tree) = 3
    /\ tree[1].kind = "for" /\ tree[1].comp = "iter"
    /\ tree[2].kind = "user" /\ tree[2].id = "S1" /\ tree[2].depth = 1
    /\ tree[3].kind = "user" /\ tree[3].id = "S2" /\ tree[3].depth = 1

\* C2 as claimed: in that scenario the loop over i is not marked parallel.
C2_NotMarked == C2_Scenario => ~Marked(1)

\* C2 as amended: in that scenario the loop over i is marked parallel
\* exactly when directive emission is enabled (the dependence has distance
\* zero in the loop's dimension: the loop does not carry it).
C2_MarkedIffOpenmp == C2_Scenario => (Marked(1) <=> openmp # 0)

\* the scenario with the largest N, built and printed with directive
\* emission enabled
C2_Witness ==
    /\ C2_Scenario /\ openmp = 1 /\ n_iter = MaxN /\ pc = "end_block"
    /\ Marked(1)

(***************************************************************************)
(* C9                                                                       *)
(***************************************************************************)
\* the positions in the output of the lines of the given kind
LinesOf(kind) == { j \in 1..Len(out) : out[j].kind = kind }

\* C9: the header of a printed for node has a directive line right before
\* it if and only if directive emission is enabled and the node is marked
\* parallel; every directive line is followed by a for header, so there is
\* exactly one; every for node is printed once; with directive emission
\* disabled no for node is annotated and there is no directive line.
C9_DirectiveIffMarked ==
    /\ \A j \in LinesOf("for") :
          (j > 1 /\ out[j - 1].kind = "pragma")
              <=> (openmp # 0 /\ Marked(out[j].node))
    /\ \A j \in LinesOf("pragma") : j < Len(out) /\ out[j + 1].kind = "for"
    /\ \A i \in LinesOf("for"), j \in LinesOf("for") :
          out[i].node = out[j].node => i = j
    /\ (pc = "end_block" /\ tree_ok) =>
          { out[j].node : j \in LinesOf("for") } = ForNodes
    /\ openmp = 0 =>
          /\ \A k \in ForNodes : tree[k].annot = <<>>
          /\ LinesOf("pragma") = {}

\* a printed tree with a loop that has its directive and a loop that has
\* none
C9_Witness ==
    /\ pc = "end_block" /\ tree_ok /\ openmp = 1
    /\ \E i \in LinesOf("for"), j \in LinesOf("for") :
          /\ i > 1 /\ out[i - 1].kind = "pragma"
          /\ j > 1 /\ out[j - 1].kind # "pragma"


(***************************************************************************)
(* SpecStmt: at_each_domain and print_user on one leaf, for every body of   *)
(* the statement S1 within the bounds: operators of one or two arguments,   *)
(* accesses with or without an argument of their own, constants, and null   *)
(* pointers.                                                                *)
(***************************************************************************)
RECURSIVE ExprsUpTo(_)
ExprsUpTo(d) ==
    IF d = 0 THEN {Access("A", <<>>), Double, NullExpr}
    ELSE LET sub == ExprsUpTo(d - 1)
         IN  sub \cup { Op(a) : a \in [1..1 -> sub] \cup [1..2 -> sub] }
                 \cup { Access("A", a) : a \in [1..1 -> sub] }

InitStmt ==
    /\ n_iter = 1
    /\ dep_flow = {} /\ dep_false = {}
    /\ stmts \in { <<[id |-> "S1", body |-> b]>> : b \in ExprsUpTo(MaxExprDepth) }
    /\ openmp = 0
    /\ pc = "print_scop"
    /\ in_parallel_for = -1 /\ open = <<>> /\ tree = <<>> /\ tree_ok = TRUE
    /\ fuel = 1 /\ freed = <<>>
    /\ cursor = 1 /\ printer = "ok" /\ output_file = "open"
    /\ out = <<Line("pre", "", 0, <<>>), Line("marker", "", 0, <<>>)>>
    /\ a_sched = <<>> /\ a_ret = <<>>
    /\ scop_present = TRUE /\ arrays = <<>>
    /\ input = <<"f", ".", "c">> /\ output = <<>>
    /\ input_file = "open" /\ out_name = <<<<"f", ".", "p", "p", "c", "g", ".", "c">>>>
    /\ hidden = 0 /\ ret = <<>>

NextStmt ==
    \/ PrintScopBegin
    \/ AtEachDomain
    \/ BuildEnd
    \/ PrintUser
    \/ PrintScopEnd

SpecStmt == InitStmt /\ [][NextStmt]_vars

(***************************************************************************)
(* C4                                                                       *)
(***************************************************************************)
\* the leaves of the tree
UserNodes == { k \in 1..Len(tree) : tree[k].kind = "user" }

\* C4: the annotation of every leaf built holds as many lists as the body
\* has access sub-expressions to print, in as many allocated entries; when
\* the leaf is printed, the k-th access printed gets the k-th list of the
\* annotation, which is the list made from that access; the cursor stays
\* inside the array and ends at its end.
C4_CursorInStep ==
    /\ \A k \in UserNodes :
          LET annot == tree[k].annot[1]
          IN  /\ annot.n_access = Len(print_pet_expr(stmts[annot.stmt].body, <<>>))
              /\ annot.n_access = annot.n_alloc
              /\ Len(annot.access) = annot.n_access
    /\ \A j \in LinesOf("stmt") :
          LET annot == tree[out[j].node].annot[1]
              subst == out[j].subst
          IN  /\ Len(subst) = annot.n_access
              /\ \A k \in 1..Len(subst) :
                    /\ k <= annot.n_alloc
                    /\ subst[k].list = annot.access[k]
                    /\ subst[k].list.of = subst[k].at

\* a printed leaf with two accesses, the first of which has an access as
\* its own argument
C4_Witness ==
    /\ pc = "end_block"
    /\ \E j \in LinesOf("stmt") :
          LET body == stmts[tree[out[j].node].annot[1].stmt].body
          IN  /\ Len(out[j].subst) = 2
              /\ body.type = "op" /\ Len(body.args) = 2
              /\ body.args[1].type = "access"
              /\ body.args[1].args # <<>>
              /\ body.args[1].args[1].type = "access"


(***************************************************************************)
(* get_output_file, src/cpu.c 63-87. A path is a sequence of characters.    *)
(***************************************************************************)
ppcg_marker == <<".", "p", "p", "c", "g">>

\* strrchr(str, c): the position of the last c in str, 0 for NULL
strrchr(str, c) ==
    LET hits == { i \in 1..Len(str) : str[i] = c }
    IN  IF hits = {} THEN 0
        ELSE CHOOSE i \in hits : \A j \in hits : j <= i

\* base: what follows the last '/' of the input, or the whole input
BaseOf(in) == SubSeq(in, strrchr(in, "/") + 1, Len(in))

\* what strcpy(name + len + sizeof(ppcg_marker) - 1, ext) may leave behind
\* the marker when ext is NULL and the program survives the call
Garbage == { <<>>, <<"?">> }

\* the contents name may have after line 81; the empty set stands for the
\* program not surviving: with ext NULL, strcpy reads through a null
\* pointer, and the program crashes or name ends in whatever was copied
NamesBuilt(in) ==
    LET base == BaseOf(in)
        ext == strrchr(base, ".")
        len == IF ext # 0 THEN ext - 1 ELSE Len(base)
    IN  IF ext # 0
        THEN { SubSeq(base, 1, len) \o ppcg_marker \o SubSeq(base, ext, Len(base)) }
        ELSE { SubSeq(base, 1, len) \o ppcg_marker \o g : g \in Garbage }

\* whether line 81 is a call of strcpy with a null source
NullExt(in) == strrchr(BaseOf(in), ".") = 0

\* get_output_file(input, output): the path handed to fopen, for each
\* content of name
get_output_file(in, outp) ==
    { IF outp = <<>> THEN name ELSE outp[1] : name \in NamesBuilt(in) }

(***************************************************************************)
(* generate_cpu, src/cpu.c 620-654, statement by statement.                 *)
(***************************************************************************)
\* src/cpu.c 628-629
CheckScop ==
    /\ pc = "start"
    /\ IF scop_present
       THEN pc' = "open_input" /\ UNCHANGED ret
       ELSE pc' = "done" /\ ret' = <<-1>>
    /\ UNCHANGED <<scopVars, buildVars, printVars, analyzerVars, scop_present,
                   arrays, input, output, input_file, out_name, hidden>>

\* src/cpu.c 631: fopen succeeds or returns NULL; the result is not tested
OpenInput ==
    /\ pc = "open_input"
    /\ input_file' \in {"open", "NULL"}
    /\ pc' = "open_output"
    /\ UNCHANGED <<scopVars, buildVars, printVars, analyzerVars, scop_present,
                   arrays, input, output, out_name, hidden, ret>>

\* src/cpu.c 632: get_output_file; fopen succeeds or returns NULL, and the
\* result is not tested
GetOutputFile ==
    /\ pc = "open_output"
    /\ \/ /\ \E name \in get_output_file(input, output) :
                out_name' = <<name>>
          /\ output_file' \in {"open", "NULL"}
          /\ pc' = "copy_before"
       \/ /\ NullExt(input)
          /\ pc' = "crashed"
          /\ UNCHANGED <<out_name, output_file>>
    /\ UNCHANGED <<scopVars, buildVars, cursor, printer, out, analyzerVars,
                   scop_present, arrays, input, output, input_file, hidden,
                   ret>>

\* copy_before_scop and copy_after_scop read input_file and write
\* output_file: with both open the text is copied; with a null FILE pointer
\* the call crashes or fails without writing
Copy(sec, next) ==
    IF input_file = "open" /\ output_file = "open"
    THEN out' = Append(out, Line(sec, "", 0, <<>>)) /\ pc' = next
    ELSE out' = out /\ pc' \in {next, "crashed"}

\* src/cpu.c 634
CopyBeforeScop ==
    /\ pc = "copy_before"
    /\ Copy("pre", "marker")
    /\ UNCHANGED <<scopVars, buildVars, cursor, printer, output_file,
                   analyzerVars, driverVars>>

\* src/cpu.c 635
PrintMarker ==
    /\ pc = "marker"
    /\ Emit(<<Line("marker", "", 0, <<>>)>>, "printer")
    /\ UNCHANGED <<scopVars, buildVars, cursor, printer, output_file,
                   analyzerVars, driverVars>>

\* src/cpu.c 636-637
PrinterToFile ==
    /\ pc = "printer"
    /\ printer' = "ok"
    /\ pc' = "exposed"
    /\ UNCHANGED <<scopVars, buildVars, cursor, output_file, out,
                   analyzerVars, driverVars>>

\* the declarations ppcg_print_exposed_declarations (exposed = TRUE) and
\* ppcg_print_hidden_declarations (exposed = FALSE) write, in the section
\* sec: one for every declared array of that kind, in the order of the list
RECURSIVE Declarations(_, _, _)
Declarations(sec, exposed, i) ==
    IF i > Len(arrays) THEN <<>>
    ELSE (IF arrays[i].declared /\ arrays[i].exposed = exposed
          THEN <<Line(sec, "decl", i, <<>>)>> ELSE <<>>)
         \o Declarations(sec, exposed, i + 1)

\* src/cpu.c 638
PrintExposed ==
    /\ pc = "exposed"
    /\ Emit(Declarations("exposed", TRUE, 1), "hidden")
    /\ UNCHANGED <<scopVars, buildVars, cursor, printer, output_file,
                   analyzerVars, driverVars>>

\* a plausible slip: an array that is not declared counts as hidden
any_hidden_declarations_not_exposed ==
    IF ~scop_present THEN 0
    ELSE IF \E i \in 1..Len(arrays) : ~arrays[i].exposed THEN 1
    ELSE 0

\* any_hidden_declarations, src/cpu.c 606-618
any_hidden_declarations ==
    IF ~scop_present THEN 0
    ELSE IF \E i \in 1..Len(arrays) : arrays[i].declared /\ ~arrays[i].exposed
    THEN 1
    ELSE 0

\* src/cpu.c 639-643: ppcg_start_block writes the opening brace
HiddenDeclarations ==
    /\ pc = "hidden"
    /\ hidden' = any_hidden_declarations
    /\ IF hidden' # 0
       THEN Emit(<<Line("block_open", "", 0, <<>>)>>
                    \o Declarations("hidden", FALSE, 1), "print_scop")
       ELSE pc' = "print_scop" /\ out' = out
    /\ UNCHANGED <<scopVars, buildVars, cursor, printer, output_file,
                   analyzerVars, scop_present, arrays, input, output,
                   input_file, out_name, ret>>

\* src/cpu.c 645-647: ppcg_end_block writes the closing brace through the
\* printer, and writes nothing when the printer is NULL; the printer is
\* freed
EndBlock ==
    /\ pc = "end_block"
    /\ IF hidden # 0 /\ printer = "ok"
       THEN Emit(<<Line("block_close", "", 0, <<>>)>>, "copy_after")
       ELSE pc' = "copy_after" /\ out' = out
    /\ printer' = "none"
    /\ UNCHANGED <<scopVars, buildVars, cursor, output_file, analyzerVars,
                   driverVars>>

\* src/cpu.c 648
CopyAfterScop ==
    /\ pc = "copy_after"
    /\ Copy("post", "close")
    /\ UNCHANGED <<scopVars, buildVars, cursor, printer, output_file,
                   analyzerVars, driverVars>>

\* src/cpu.c 650-653: fclose on a null FILE pointer crashes or fails
Close ==
    /\ pc = "close"
    /\ \/ /\ pc' = "done"
          /\ ret' = <<0>>
          /\ output_file' = IF output_file = "open" THEN "closed" ELSE output_file
          /\ input_file' = IF input_file = "open" THEN "closed" ELSE input_file
       \/ /\ input_file = "NULL" \/ output_file = "NULL"
          /\ pc' = "crashed"
          /\ UNCHANGED <<ret, output_file, input_file>>
    /\ UNCHANGED <<scopVars, buildVars, cursor, printer, out, analyzerVars,
                   scop_present, arrays, input, output, out_name, hidden>>


(***************************************************************************)
(* Spec: generate_cpu from its call to its return, with print_scop inside,  *)
(* for every array list within the bounds, a missing SCoP, an input path    *)
(* with and without a '.', an output path given or not, and every outcome   *)
(* of the two calls of fopen.                                               *)
(***************************************************************************)
ArrayLists ==
    UNION { [1..n -> [declared : BOOLEAN, exposed : BOOLEAN]] : n \in 0..MaxArrays }

DriverInputs == { <<"d", "/", "f", ".", "c">>, <<"d", ".", "c", "/", "f">> }
DriverOutputs == { <<>>, << <<"o", ".", "c">> >> }

Init ==
    /\ scop_present \in BOOLEAN
    /\ arrays \in IF scop_present THEN ArrayLists ELSE {<<>>}
    /\ openmp \in IF scop_present THEN {0, 1} ELSE {0}
    /\ fuel \in IF scop_present THEN {MaxDriverNodes} ELSE {0}
    /\ input \in DriverInputs
    /\ output \in DriverOutputs
    /\ n_iter = 1
    /\ dep_flow = {} /\ dep_false = {}
    /\ stmts = IF scop_present THEN VecAddStmts ELSE <<>>
    /\ pc = "start"
    /\ in_parallel_for = -1 /\ open = <<>> /\ tree = <<>> /\ tree_ok = TRUE
    /\ freed = <<>>
    /\ cursor = 1 /\ printer = "none" /\ output_file = "unopened" /\ out = <<>>
    /\ input_file = "unopened" /\ out_name = <<>>
    /\ hidden = 0 /\ ret = <<>>
    /\ a_sched = <<>> /\ a_ret = <<>>

Next ==
    \/ CheckScop
    \/ OpenInput
    \/ GetOutputFile
    \/ CopyBeforeScop
    \/ PrintMarker
    \/ PrinterToFile
    \/ PrintExposed
    \/ HiddenDeclarations
    \/ PrintScopBegin
    \/ BeforeFor
    \/ AfterFor
    \/ AtEachDomain
    \/ BuildEnd
    \/ PrintFor
    \/ PrintUser
    \/ PrintScopEnd
    \/ EndBlock
    \/ CopyAfterScop
    \/ Close

Spec == Init /\ [][Next]_vars

(***************************************************************************)
(* SpecName: get_output_file on every input path within the bounds, with    *)
(* and without an output path; it starts where generate_cpu calls it.       *)
(***************************************************************************)
PathChars == {"/", ".", "f", "c"}
\* the paths of a file: they do not end in '/'
Paths ==
    { path \in UNION { [1..n -> PathChars] : n \in 1..MaxPathLen } :
        path[Len(path)] # "/" }

InitName ==
    /\ input \in Paths
    /\ output \in DriverOutputs
    /\ scop_present = TRUE /\ arrays = <<>>
    /\ openmp = 0 /\ fuel = 0
    /\ n_iter = 1
    /\ dep_flow = {} /\ dep_false = {}
    /\ stmts = VecAddStmts
    /\ pc = "open_output"
    /\ in_parallel_for = -1 /\ open = <<>> /\ tree = <<>> /\ tree_ok = TRUE
    /\ freed = <<>>
    /\ cursor = 1 /\ printer = "none" /\ output_file = "unopened" /\ out = <<>>
    /\ input_file = "open" /\ out_name = <<>>
    /\ hidden = 0 /\ ret = <<>>
    /\ a_sched = <<>> /\ a_ret = <<>>

NextName == GetOutputFile

SpecName == InitName /\ [][NextName]_vars


(***************************************************************************)
(* C5                                                                       *)
(***************************************************************************)
\* at_each_domain has found no statement for the identity of a leaf
LookupFailed == \E i \in 1..Len(freed) : freed[i].on = "lookup"

\* C5 as claimed: when the lookup of a leaf's statement has failed (in a
\* run with both files opened), generate_cpu returns a failure and nothing
\* of a generated tree is in the output.
C5_LookupFailureReported ==
    (pc = "done" /\ LookupFailed
        /\ input_file = "closed" /\ output_file = "closed") =>
        /\ ret = <<-1>>
        /\ \A j \in 1..Len(out) : out[j].sec # "tree"

(***************************************************************************)
(* C6                                                                       *)
(***************************************************************************)
\* C6 as claimed: without a SCoP generate_cpu returns a failure and has
\* written nothing; once a call of fopen has failed it goes no further than
\* the next use of the stream, writes nothing and returns a failure.
C6_AbortOnOpenFailure ==
    /\ (~scop_present /\ pc = "done") => (ret = <<-1>> /\ out = <<>>)
    /\ (input_file = "NULL" \/ output_file = "NULL") =>
          /\ pc \in {"open_output", "copy_before", "done"}
          /\ out = <<>>
          /\ pc = "done" => ret = <<-1>>

(***************************************************************************)
(* C7 and C8                                                                *)
(***************************************************************************)
\* the positions in the output of the lines of the given section
SectionOf(sec) == { j \in 1..Len(out) : out[j].sec = sec }

\* the arrays that are declared and have the given exposure
DeclaredArrays(exposed) ==
    { i \in 1..Len(arrays) : arrays[i].declared /\ arrays[i].exposed = exposed }

\* the block of the hidden declarations in the output: one opening brace
\* after the exposed declarations, the hidden declarations and the tree
\* inside, one closing brace before the text after the region
OneBlock ==
    /\ Cardinality(SectionOf("block_open")) = 1
    /\ Cardinality(SectionOf("block_close")) = 1
    /\ \A o \in SectionOf("block_open"), c \in SectionOf("block_close") :
          /\ o < c
          /\ \A j \in SectionOf("exposed") : j < o
          /\ \A j \in SectionOf("hidden") \cup SectionOf("tree") : o < j /\ j < c
          /\ \A j \in SectionOf("post") : c < j
    /\ { out[j].node : j \in SectionOf("hidden") } = DeclaredArrays(FALSE)

NoBlock ==
    /\ SectionOf("block_open") = {} /\ SectionOf("block_close") = {}
    /\ SectionOf("hidden") = {}

\* C7 as claimed: when generate_cpu has returned with both files opened
\* and closed, the output has exactly one block, as above, if an array is
\* declared and not exposed, and no block otherwise.
C7_BlockBalanced ==
    (pc = "done" /\ input_file = "closed" /\ output_file = "closed") =>
        IF DeclaredArrays(FALSE) # {} THEN OneBlock ELSE NoBlock

\* a run in which nothing has failed: the SCoP is there, both files were
\* opened, the tree was built, and generate_cpu has returned 0
Successful ==
    /\ pc = "done" /\ ret = <<0>>
    /\ input_file = "closed" /\ output_file = "closed"
    /\ tree_ok

\* the place of a section in the order of the output
Rank(sec) ==
    CASE sec = "pre" -> 1 [] sec = "marker" -> 2 [] sec = "exposed" -> 3
      [] sec = "block_open" -> 4 [] sec = "hidden" -> 5 [] sec = "tree" -> 6
      [] sec = "block_close" -> 7 [] sec = "post" -> 8

\* the lines of the tree other than the directive lines
TreeLines == { j \in SectionOf("tree") : out[j].kind # "pragma" }

\* C8: after a successful run the output holds, in this order, the text
\* before the region, the marker, the exposed declarations, the opening
\* brace and the hidden declarations if there are any, the tree, the
\* closing brace if there is a block, and the text after the region, which
\* is the last thing written; each of them once.
C8_SectionOrder ==
    Successful =>
        /\ \A i \in 1..Len(out), j \in 1..Len(out) :
              i < j => Rank(out[i].sec) <= Rank(out[j].sec)
        /\ Cardinality(SectionOf("pre")) = 1
        /\ Cardinality(SectionOf("marker")) = 1
        /\ Cardinality(SectionOf("post")) = 1
        /\ out[Len(out)].sec = "post"
        /\ { out[j].node : j \in SectionOf("exposed") } = DeclaredArrays(TRUE)
        /\ Cardinality(SectionOf("exposed")) = Cardinality(DeclaredArrays(TRUE))
        /\ { out[j].node : j \in SectionOf("hidden") } = DeclaredArrays(FALSE)
        /\ Cardinality(SectionOf("hidden")) = Cardinality(DeclaredArrays(FALSE))
        /\ Cardinality(SectionOf("block_open")) =
              (IF DeclaredArrays(FALSE) # {} THEN 1 ELSE 0)
        /\ Cardinality(SectionOf("block_close")) =
              Cardinality(SectionOf("block_open"))
        /\ { out[j].node : j \in TreeLines } = 1..Len(tree)
        /\ Cardinality(TreeLines) = Len(tree)

\* a successful run with an exposed and a hidden array and a tree of a
\* loop around a statement
C8_Witness ==
    /\ Successful
    /\ DeclaredArrays(TRUE) # {} /\ DeclaredArrays(FALSE) # {}
    /\ Len(tree) = 2 /\ tree[1].kind = "for" /\ tree[2].kind = "user"
    /\ Len(out) = 9

(***************************************************************************)
(* C10                                                                      *)
(***************************************************************************)
\* the name derived from an input path whose last component has no '.':
\* there is no extension to replace, and the marker extension follows the
\* component
DerivedName(in) == BaseOf(in) \o ppcg_marker

\* C10 as claimed, for an input path whose last component has no '.':
\* get_output_file returns, and the file it has opened is the output path
\* if one is given and the derived name otherwise.
C10_OutputName ==
    (pc # "open_output" /\ NullExt(input)) =>
        /\ pc # "crashed"
        /\ out_name = <<IF output = <<>> THEN DerivedName(input) ELSE output[1]>>

(***************************************************************************)
(* C11                                                                      *)
(***************************************************************************)
\* C11: with directive emission enabled, a for node is marked parallel if
\* and only if the analyzer finds its loop parallel and none of the for
\* nodes that enclose it (those under construction when it was started) is
\* marked parallel.
C11_MarkedIffOutermostParallel ==
    openmp # 0 =>
        \A k \in ForNodes :
            Marked(k) <=> /\ Verdict(k)
                          /\ \A j \in Ancestors(k) : ~Marked(j)

\* a finished tree of two loops side by side, the second started after the
\* first, marked parallel, was completed, and marked parallel as well
C11_Witness ==
    /\ pc = "print" /\ tree_ok /\ openmp # 0
    /\ \E j \in ForNodes, k \in ForNodes :
          /\ j < k
          /\ tree[j].depth = 0 /\ tree[k].depth = 0
          /\ Marked(j) /\ Marked(k)

(***************************************************************************)
(* C12                                                                      *)
(***************************************************************************)
\* the for nodes under construction that are marked parallel
OpenMarked == { i \in 1..Len(open) : Marked(open[i]) }

\* between two hook calls the flag is 1 exactly when one for node under
\* construction is marked, and no two are
FlagTracksOpen ==
    (openmp # 0 /\ pc = "build") =>
        /\ Cardinality(OpenMarked) <= 1
        /\ in_parallel_for = IF OpenMarked # {} THEN 1 ELSE 0

\* the flag is 0 once the whole tree is built
FlagClearAtEnd ==
    (openmp # 0 /\ pc \notin {"print_scop", "build"} /\ tree_ok) =>
        in_parallel_for = 0

\* a step of the build that completes a for node leaves the flag as it is
\* if the node is not marked; a step that clears the flag completes the for
\* node that set it: the innermost one under construction, which is marked
\* and is the only marked one under construction
FlagStep ==
    (openmp # 0 /\ pc = "build" /\ pc' = "build") =>
        /\ (Len(open') < Len(open) /\ ~Marked(open[Len(open)])) =>
              in_parallel_for' = in_parallel_for
        /\ (in_parallel_for = 1 /\ in_parallel_for' = 0) =>
              /\ open' = SubSeq(open, 1, Len(open) - 1)
              /\ OpenMarked = {Len(open)}
        /\ (in_parallel_for = 0 /\ in_parallel_for' = 1) =>
              /\ Len(open') = Len(open) + 1
              /\ tree'[open'[Len(open')]].annot[1].is_openmp # 0

\* C12: at every point of the build the flag says whether a for node under
\* construction is marked parallel; completing an unmarked for node leaves
\* it unchanged, the for node that clears it is the one that set it, and it
\* is 0 when the tree is built.
C12_FlagTracksOpenMarkedLoop ==
    /\ [](FlagTracksOpen /\ FlagClearAtEnd)
    /\ [][FlagStep]_vars

\* a finished tree in which a marked loop encloses an unmarked one: the
\* inner loop was completed with the flag set, the outer one cleared it
C12_Witness ==
    /\ pc = "print" /\ tree_ok /\ openmp # 0
    /\ in_parallel_for = 0
    /\ \E k \in ForNodes : \E j \in Ancestors(k) :
          Marked(j) /\ ~Marked(k)

(***************************************************************************)
(* C13                                                                      *)
(***************************************************************************)
\* the releases made on the error exits of at_each_domain
ErrorFrees == { i \in 1..Len(freed) : freed[i].on \in {"lookup", "count", "alloc"} }

\* C13 as claimed: when at_each_domain has left by an error exit, the
\* annotation it had allocated was released once, and the release stayed
\* inside the entries allocated for the access array: the n_access it
\* found is at most the number of entries allocated.
C13_ReleaseWithinAllocated ==
    ~tree_ok =>
        /\ Cardinality(ErrorFrees) <= 1
        /\ \A i \in ErrorFrees : ~OutsideArray(freed[i])
        /\ pc # "crashed"

====
